---- MODULE Spec2Model ----
(***************************************************************************)
(* A model of the Either / IOEither combinator core of fp-ts               *)
(* (src/es6/Either.js, src/es6/IOEither.js).                               *)
(*                                                                         *)
(* JavaScript values that are functions are modelled as data:              *)
(*   - a function value is a record with a field fn naming the closure     *)
(*     and the variables it captured; Apply(fn, a, log) calls it;          *)
(*   - an IO (a zero-argument function) is a record with a field io;       *)
(*     Run(t, log) invokes it.                                             *)
(* Every evaluation threads the event log (the sequence of invocations of  *)
(* caller-supplied callbacks and effects) and ends in a completion record  *)
(* [kind, val, log]: kind = "return" (val is the value returned) or        *)
(* kind = "throw" (val is the native exception thrown).                    *)
(***************************************************************************)
EXTENDS Integers, Sequences, FiniteSets, TLC

VARIABLES call, ret, log, mark, last, runs

vars == <<call, ret, log, mark, last, runs>>

\* Right payloads and resources are 0..MaxVal.
MaxVal == 1
\* An IO built by one call is invoked at most MaxRuns times.
MaxRuns == 2

Val == 0 .. MaxVal
Err == {"e0", "e1"}
Exn == {"x0", "x1"}

-----------------------------------------------------------------------------
(* Completions of a JavaScript evaluation.                                 *)

Ret(v, l) == [kind |-> "return", val |-> v, log |-> l]
Thr(x, l) == [kind |-> "throw", val |-> x, log |-> l]

\* What a caller-supplied callback does when invoked: return v or throw x.
OutRet(v) == [kind |-> "return", val |-> v]
OutThr(x) == [kind |-> "throw", val |-> x]

\* A caller-supplied function: invoking it with a is the event <<name, a>>.
\* UserFn does tab[a]; ConstFn does the same thing out whatever it is given.
UserFn(name, tab) == [fn |-> "user", name |-> name, tab |-> tab]
ConstFn(name, out) == [fn |-> "const", name |-> name, out |-> out]
\* A caller-supplied Semigroup: concat(x, y) is the event <<name, <<x, y>>>>.
Semigroup(name, op) == [fn |-> "semigroup", name |-> name, op |-> op]
\* The associative operations the model supplies: three on strings (the left
\* payloads), three on numbers (the right payloads).
SConcat(op, x, y) ==
    CASE op = "first" -> x
      [] op = "last" -> y
      [] op = "append" -> x \o y
      [] op = "sum" -> x + y
SemigroupsE == {"first", "last", "append"}
SemigroupsA == {"first", "last", "sum"}
\* A caller-supplied zero-argument function (an effect): the event <<name>>.
UserIO(name, out) == [io |-> "user", name |-> name, out |-> out]

-----------------------------------------------------------------------------
(* Either.js: model, constructors, guards.                                 *)

E_left(e) == [tag |-> "Left", left |-> e]
E_right(a) == [tag |-> "Right", right |-> a]

E_isLeft(ma) ==
    CASE ma.tag = "Left" -> TRUE
      [] ma.tag = "Right" -> FALSE

E_isRight(ma) == IF E_isLeft(ma) THEN FALSE ELSE TRUE

\* Option values as Either.js reads them: ._tag === 'None', .value
O_none == [tag |-> "None"]
O_some(a) == [tag |-> "Some", value |-> a]

-----------------------------------------------------------------------------
(* IO.js and EitherT.js are not part of the sources at hand; the IO and    *)
(* EitherT combinators are modelled from their specification.              *)

\* io.of(a): an IO that yields a and performs no effect.
io_of(a) == [io |-> "of", a |-> a]
\* io.map(f)(fa) = () => f(fa())
io_map(f, fa) == [io |-> "map", f |-> f, fa |-> fa]
\* io.chain(ma, f) = () => f(ma())()
io_chain(ma, f) == [io |-> "chain", ma |-> ma, f |-> f]

\* io.ap(fa)(fab) = () => fab()(fa())
io_ap(fa, fab) == [io |-> "ap", fa |-> fa, fab |-> fab]

\* apComposition(F, G)(fa)(fab) = pipe(fab, F.map(gab => ga => G.ap(ga)(gab)), F.ap(fa))
\* with F the applicative of IO
apComposition(G, fa, fab) ==
    io_ap(fa, io_map([fn |-> "apComposition.gab", G |-> G], fab))

\* EitherT.left(M)(e) = M.of(left(e)); EitherT.right(M)(a) = M.of(right(a))
EitherT_left(e) == io_of(E_left(e))
EitherT_right(a) == io_of(E_right(a))
\* EitherT.chain(M)(f)(ma) = M.chain(ma, e => isLeft(e) ? M.of(e) : f(e.right))
EitherT_chain(f, ma) == io_chain(ma, [fn |-> "EitherT.chain.k", f |-> f])

-----------------------------------------------------------------------------
(* The evaluator.                                                          *)

RECURSIVE Apply(_, _, _), Run(_, _)

\* Mutant: a Left comes back as a Right holding the left payload.
E_map_leftAsRight(f, fa, l) ==
    IF E_isLeft(fa) THEN Ret(E_right(fa.left), l)
    ELSE LET r == Apply(f, fa.right, l)
         IN  IF r.kind = "throw" THEN r ELSE Ret(E_right(r.val), r.log)

\* Mutant: f is applied to its own result once more.
E_map_appliesTwice(f, fa, l) ==
    IF E_isLeft(fa) THEN Ret(fa, l)
    ELSE LET r == Apply(f, fa.right, l)
         IN  IF r.kind = "throw" THEN r
             ELSE LET q == Apply(f, r.val, r.log)
                  IN  IF q.kind = "throw" THEN q ELSE Ret(E_right(q.val), q.log)

\* E.map(f)(fa)
E_map(f, fa, l) ==
    IF E_isLeft(fa) THEN Ret(fa, l)
    ELSE LET r == Apply(f, fa.right, l)
         IN  IF r.kind = "throw" THEN r ELSE Ret(E_right(r.val), r.log)

\* Mutant: chainFirst in the place of chain, a Right of f is replaced by the
\* Right it was computed from.
E_chain_asChainFirst(f, ma, l) ==
    IF E_isLeft(ma) THEN Ret(ma, l)
    ELSE LET r == Apply(f, ma.right, l)
         IN  IF r.kind = "throw" \/ E_isLeft(r.val) THEN r
             ELSE Ret(E_right(ma.right), r.log)

\* E.chain(f)(ma)
E_chain(f, ma, l) ==
    IF E_isLeft(ma) THEN Ret(ma, l) ELSE Apply(f, ma.right, l)

\* Mutant: the argument side is looked at before the function side.
E_ap_argumentFirst(fa, fab, l) ==
    IF E_isLeft(fa) THEN Ret(fa, l)
    ELSE IF E_isLeft(fab) THEN Ret(fab, l)
    ELSE LET r == Apply(fab.right, fa.right, l)
         IN  IF r.kind = "throw" THEN r ELSE Ret(E_right(r.val), r.log)

\* E.ap(fa)(fab)
E_ap(fa, fab, l) ==
    IF E_isLeft(fab) THEN Ret(fab, l)
    ELSE IF E_isLeft(fa) THEN Ret(fa, l)
    ELSE LET r == Apply(fab.right, fa.right, l)
         IN  IF r.kind = "throw" THEN r ELSE Ret(E_right(r.val), r.log)

\* Mutant: the two failures are combined in the other order.
getValidation_ap_swapped(S, ma, mab, l) ==
    IF E_isLeft(mab)
    THEN IF E_isLeft(ma)
         THEN LET c == Apply(S, <<ma.left, mab.left>>, l)
              IN  IF c.kind = "throw" THEN c ELSE Ret(E_left(c.val), c.log)
         ELSE Ret(mab, l)
    ELSE IF E_isLeft(ma) THEN Ret(ma, l)
    ELSE LET r == Apply(mab.right, ma.right, l)
         IN  IF r.kind = "throw" THEN r ELSE Ret(E_right(r.val), r.log)

\* getValidation(S).ap(ma)(mab)
getValidation_ap(S, ma, mab, l) ==
    IF E_isLeft(mab)
    THEN IF E_isLeft(ma)
         THEN LET c == Apply(S, <<mab.left, ma.left>>, l)
              IN  IF c.kind = "throw" THEN c ELSE Ret(E_left(c.val), c.log)
         ELSE Ret(mab, l)
    ELSE IF E_isLeft(ma) THEN Ret(ma, l)
    ELSE LET r == Apply(mab.right, ma.right, l)
         IN  IF r.kind = "throw" THEN r ELSE Ret(E_right(r.val), r.log)

\* Mutant: getSemigroup's rule, a Right wins over a Left.
getValidationSemigroup_concat_rightWins(SE, SA, fx, fy, l) ==
    IF E_isLeft(fx)
    THEN IF E_isLeft(fy)
         THEN LET c == Apply(SE, <<fx.left, fy.left>>, l)
              IN  IF c.kind = "throw" THEN c ELSE Ret(E_left(c.val), c.log)
         ELSE Ret(fy, l)
    ELSE IF E_isLeft(fy) THEN Ret(fx, l)
    ELSE LET c == Apply(SA, <<fx.right, fy.right>>, l)
         IN  IF c.kind = "throw" THEN c ELSE Ret(E_right(c.val), c.log)

\* getValidationSemigroup(SE, SA).concat(fx, fy)
getValidationSemigroup_concat(SE, SA, fx, fy, l) ==
    IF E_isLeft(fx)
    THEN IF E_isLeft(fy)
         THEN LET c == Apply(SE, <<fx.left, fy.left>>, l)
              IN  IF c.kind = "throw" THEN c ELSE Ret(E_left(c.val), c.log)
         ELSE Ret(fx, l)
    ELSE IF E_isLeft(fy) THEN Ret(fy, l)
    ELSE LET c == Apply(SA, <<fx.right, fy.right>>, l)
         IN  IF c.kind = "throw" THEN c ELSE Ret(E_right(c.val), c.log)

\* The instances handed to apComposition: E.getValidation(S), E.applyEither.
getValidation(S) == [instance |-> "getValidation", S |-> S]
applyEither == [instance |-> "applyEither"]
\* G.ap(ga)(gab)
instance_ap(G, ga, gab, l) ==
    CASE G.instance = "getValidation" -> getValidation_ap(G.S, ga, gab, l)
      [] G.instance = "applyEither" -> E_ap(ga, gab, l)

\* Mutant: that is evaluated before fa is looked at.
E_alt_eager(that, fa, l) ==
    LET y == Run(that, l)
    IN  IF y.kind = "throw" THEN y
        ELSE IF E_isLeft(fa) THEN y ELSE Ret(fa, y.log)

\* E.alt(that)(fa)
E_alt(that, fa, l) ==
    IF E_isLeft(fa) THEN Run(that, l) ELSE Ret(fa, l)

\* Mutant: what onError throws is caught as well and becomes the Left.
E_tryCatch_catchesOnError(f, onError, l) ==
    LET r == Run(f, l)
    IN  IF r.kind = "return" THEN Ret(E_right(r.val), r.log)
        ELSE LET h == Apply(onError, r.val, r.log)
             IN  Ret(E_left(h.val), h.log)

\* Mutant: two Lefts are equal whatever their payloads.
getEq_equals_tagOnly(EL, EA, x, y, same, l) ==
    IF same THEN Ret(TRUE, l)
    ELSE IF E_isLeft(x)
    THEN IF E_isLeft(y) THEN Ret(TRUE, l) ELSE Ret(FALSE, l)
    ELSE IF E_isRight(y) THEN Apply(EA, <<x.right, y.right>>, l)
         ELSE Ret(FALSE, l)

\* getEq(EL, EA).equals(x, y); same is x === y, the identity of the two
\* objects, and || and && evaluate their right operand only when needed.
getEq_equals(EL, EA, x, y, same, l) ==
    IF same THEN Ret(TRUE, l)
    ELSE IF E_isLeft(x)
    THEN IF E_isLeft(y) THEN Apply(EL, <<x.left, y.left>>, l)
         ELSE Ret(FALSE, l)
    ELSE IF E_isRight(y) THEN Apply(EA, <<x.right, y.right>>, l)
         ELSE Ret(FALSE, l)

\* getCompactable(M): var empty = left(M.empty), also in getFilterable(M)
empty(M) == E_left(M.empty)

\* getCompactable(M).compact(ma)
compact(M, ma, l) ==
    IF E_isLeft(ma) THEN Ret(ma, l)
    ELSE IF ma.right.tag = "None" THEN Ret(E_left(M.empty), l)
    ELSE Ret(E_right(ma.right.value), l)

\* getCompactable(M).separate(ma)
separate(M, ma, l) ==
    IF E_isLeft(ma) THEN Ret([left |-> ma, right |-> ma], l)
    ELSE IF E_isLeft(ma.right)
    THEN Ret([left |-> E_right(ma.right.left), right |-> empty(M)], l)
    ELSE Ret([left |-> empty(M), right |-> E_right(ma.right.right)], l)

\* Mutant: a Left is replaced by the empty Left.
filter_emptiesLeft(M, predicate, ma, l) ==
    IF E_isLeft(ma) THEN Ret(empty(M), l)
    ELSE LET p == Apply(predicate, ma.right, l)
         IN  IF p.kind = "throw" THEN p
             ELSE IF p.val THEN Ret(ma, p.log) ELSE Ret(E_left(M.empty), p.log)

\* getFilterable(M).filter(predicate)(ma)
filter(M, predicate, ma, l) ==
    IF E_isLeft(ma) THEN Ret(ma, l)
    ELSE LET p == Apply(predicate, ma.right, l)
         IN  IF p.kind = "throw" THEN p
             ELSE IF p.val THEN Ret(ma, p.log) ELSE Ret(E_left(M.empty), p.log)

\* getFilterable(M).filterMap(f)(ma)
filterMap(M, f, ma, l) ==
    IF E_isLeft(ma) THEN Ret(ma, l)
    ELSE LET ob == Apply(f, ma.right, l)
         IN  IF ob.kind = "throw" THEN ob
             ELSE IF ob.val.tag = "None" THEN Ret(E_left(M.empty), ob.log)
             ELSE Ret(E_right(ob.val.value), ob.log)

\* Mutant: the two components change places.
partition_swapped(M, p, ma, l) ==
    IF E_isLeft(ma) THEN Ret([left |-> ma, right |-> ma], l)
    ELSE LET b == Apply(p, ma.right, l)
         IN  IF b.kind = "throw" THEN b
             ELSE IF b.val
             THEN Ret([left |-> E_right(ma.right), right |-> empty(M)], b.log)
             ELSE Ret([left |-> empty(M), right |-> E_right(ma.right)], b.log)

\* getFilterable(M).partition(p)(ma)
partition(M, p, ma, l) ==
    IF E_isLeft(ma) THEN Ret([left |-> ma, right |-> ma], l)
    ELSE LET b == Apply(p, ma.right, l)
         IN  IF b.kind = "throw" THEN b
             ELSE IF b.val
             THEN Ret([left |-> empty(M), right |-> E_right(ma.right)], b.log)
             ELSE Ret([left |-> E_right(ma.right), right |-> empty(M)], b.log)

\* getFilterable(M).partitionMap(f)(ma)
partitionMap(M, f, ma, l) ==
    IF E_isLeft(ma) THEN Ret([left |-> ma, right |-> ma], l)
    ELSE LET e == Apply(f, ma.right, l)
         IN  IF e.kind = "throw" THEN e
             ELSE IF E_isLeft(e.val)
             THEN Ret([left |-> E_right(e.val.left), right |-> empty(M)], e.log)
             ELSE Ret([left |-> empty(M), right |-> E_right(e.val.right)], e.log)

\* E.tryCatch(f, onError): try { return right(f()) } catch (e) { return left(onError(e)) }
E_tryCatch(f, onError, l) ==
    LET r == Run(f, l)
    IN  IF r.kind = "return" THEN Ret(E_right(r.val), r.log)
        ELSE LET h == Apply(onError, r.val, r.log)
             IN  IF h.kind = "throw" THEN h ELSE Ret(E_left(h.val), h.log)

\* The continuation EitherT.chain hands to the base monad's chain.
EitherT_chain_k(f, e, l) ==
    IF E_isLeft(e) THEN Ret(io_of(e), l) ELSE Apply(f, e.right, l)

\* Invoking io.map(f)(fa)
run_map(t, l) ==
    LET r == Run(t.fa, l)
    IN  IF r.kind = "throw" THEN r ELSE Apply(t.f, r.val, r.log)

\* Invoking io.ap(fa)(fab)
run_ap(t, l) ==
    LET f == Run(t.fab, l)
    IN  IF f.kind = "throw" THEN f
        ELSE LET a == Run(t.fa, f.log)
             IN  IF a.kind = "throw" THEN a ELSE Apply(f.val, a.val, a.log)

\* Invoking io.chain(ma, f)
run_chain(t, l) ==
    LET r == Run(t.ma, l)
    IN  IF r.kind = "throw" THEN r
        ELSE LET k == Apply(t.f, r.val, r.log)
             IN  IF k.kind = "throw" THEN k ELSE Run(k.val, k.log)

\* IOEither.js: left, right, of, chain, map
left(e) == EitherT_left(e)
right(a) == EitherT_right(a)
of(a) == right(a)

\* Mutant: ma is run a second time before the continuation sees its result.
chain_runsTwice(f, ma, l) ==
    Ret(EitherT_chain(f, io_chain(ma, ConstFn("again", OutRet(ma)))), l)

chain(f, ma, l) == Ret(EitherT_chain(f, ma), l)

\* Mutant: fa is run when map is called and its result is kept.
map_eager(f, fa, l) ==
    LET r == Run(fa, l)
    IN  IF r.kind = "throw" THEN r
        ELSE Ret(io_map([fn |-> "E.map", f |-> f], io_of(r.val)), r.log)

map(f, fa, l) == Ret(io_map([fn |-> "E.map", f |-> f], fa), l)

\* Mutant: f is run when tryCatch is called, not when its result is invoked.
tryCatch_eager(f, onError, l) ==
    LET r == E_tryCatch(f, onError, l)
    IN  IF r.kind = "throw" THEN r ELSE Ret(io_of(r.val), r.log)

\* IOEither.tryCatch(f, onError) = function () { return E.tryCatch(f, onError) }
tryCatch(f, onError, l) ==
    Ret([io |-> "tryCatch", f |-> f, onError |-> onError], l)

\* Mutant: Either's own apply instance in the place of the validation.
getIOValidation_ap_applyEither(S, fa, fab, l) ==
    Ret(apComposition(applyEither, fa, fab), l)

\* getIOValidation(S).ap = apComposition(io.applicativeIO, E.getValidation(S))
getIOValidation_ap(S, fa, fab, l) ==
    Ret(apComposition(getValidation(S), fa, fab), l)

\* Mutant: the failure of use is rebuilt with of instead of left.
bracket_result_ofLeft(e, l) ==
    IF E_isLeft(e) THEN Ret(of(e.left), l) ELSE Ret(of(e.right), l)

\* bracket, innermost closure: function () { return isLeft(e) ? left(e.left) : of(e.right) }
bracket_result(e, l) ==
    IF E_isLeft(e) THEN Ret(left(e.left), l) ELSE Ret(of(e.right), l)

\* Mutant: release is skipped when use failed.
bracket_release_onSuccessOnly(release, a, e, l) ==
    IF E_isLeft(e) THEN Ret(left(e.left), l)
    ELSE LET r == Apply(release, <<a, e>>, l)
         IN  IF r.kind = "throw" THEN r
             ELSE chain([fn |-> "bracket.result", e |-> e], r.val, r.log)

\* bracket, middle closure:
\*   function (e) { return pipe(release(a, e), chain(<bracket_result>)) }
bracket_release(release, a, e, l) ==
    LET r == Apply(release, <<a, e>>, l)
    IN  IF r.kind = "throw" THEN r
        ELSE chain([fn |-> "bracket.result", e |-> e], r.val, r.log)

\* Mutant: a throw of use(a) is caught, release is called, the throw goes on.
bracket_use_finally(use, release, a, l) ==
    LET u == Apply(use, a, l)
    IN  IF u.kind = "throw"
        THEN Thr(u.val, Apply(release, <<a, E_left(u.val)>>, u.log).log)
        ELSE chain([fn |-> "bracket.release", release |-> release, a |-> a],
                   io_map([fn |-> "E.right"], u.val), u.log)

\* bracket, outer closure:
\*   function (a) { return pipe(pipe(use(a), io.monadIO.map(E.right)), chain(<bracket_release>)) }
bracket_use(use, release, a, l) ==
    LET u == Apply(use, a, l)
    IN  IF u.kind = "throw" THEN u
        ELSE chain([fn |-> "bracket.release", release |-> release, a |-> a],
                   io_map([fn |-> "E.right"], u.val), u.log)

\* Mutant: io.chain where chain was meant, the continuation gets the Either.
bracket_ioChain(acquire, use, release, l) ==
    Ret(io_chain(acquire, [fn |-> "bracket.use", use |-> use, release |-> release]), l)

\* bracket(acquire, use, release) = pipe(acquire, chain(<bracket_use>))
bracket(acquire, use, release, l) ==
    chain([fn |-> "bracket.use", use |-> use, release |-> release], acquire, l)

\* Calling a function value.
Apply(fn, a, l) ==
    CASE fn.fn = "user" ->
            LET o == fn.tab[a]
            IN  [kind |-> o.kind, val |-> o.val, log |-> Append(l, <<fn.name, a>>)]
      [] fn.fn = "const" ->
            [kind |-> fn.out.kind, val |-> fn.out.val, log |-> Append(l, <<fn.name, a>>)]
      [] fn.fn = "semigroup" ->
            Ret(SConcat(fn.op, a[1], a[2]), Append(l, <<fn.name, a>>))
      [] fn.fn = "E.right" -> Ret(E_right(a), l)
      [] fn.fn = "E.map" -> E_map(fn.f, a, l)
      [] fn.fn = "apComposition.gab" ->
            Ret([fn |-> "apComposition.ga", G |-> fn.G, gab |-> a], l)
      [] fn.fn = "apComposition.ga" -> instance_ap(fn.G, a, fn.gab, l)
      [] fn.fn = "EitherT.chain.k" -> EitherT_chain_k(fn.f, a, l)
      [] fn.fn = "bracket.use" -> bracket_use(fn.use, fn.release, a, l)
      [] fn.fn = "bracket.release" -> bracket_release(fn.release, fn.a, a, l)
      [] fn.fn = "bracket.result" -> bracket_result(fn.e, l)

\* Invoking an IO.
Run(t, l) ==
    CASE t.io = "user" ->
            [kind |-> t.out.kind, val |-> t.out.val, log |-> Append(l, <<t.name>>)]
      [] t.io = "of" -> Ret(t.a, l)
      [] t.io = "map" -> run_map(t, l)
      [] t.io = "chain" -> run_chain(t, l)
      [] t.io = "ap" -> run_ap(t, l)
      [] t.io = "tryCatch" -> E_tryCatch(t.f, t.onError, l)

-----------------------------------------------------------------------------
(* The inputs the operations are called with.                              *)

\* Either<Err, Val>
EitherEV == {E_left(e) : e \in Err} \cup {E_right(a) : a \in Val}

\* What an IOEither supplied by the caller does when invoked.
IOOut == {OutRet(m) : m \in EitherEV} \cup {OutThr(x) : x \in Exn}

\* What a caller-supplied function returning an IOEither does when called:
\* it throws, or it returns an IOEither named name.
KOut(name) == {OutThr(x) : x \in Exn} \cup {OutRet(UserIO(name, o)) : o \in IOOut}

\* A total function as the table of a caller-supplied function that returns.
Pure(f) == [a \in DOMAIN f |-> OutRet(f[a])]

\* of = right, as a function value
E_of == [fn |-> "E.right"]

\* Functions Val -> Either<Err, Val> handed to Either.chain.
KleisliFn == {UserFn("f", Pure(t)) : t \in [Val -> EitherEV]} \cup {E_of}

\* Either<Err, Val -> Val>, the function side of ap.
EitherFn ==
    {E_left(e) : e \in Err} \cup {E_right(UserFn("fab", Pure(g))) : g \in [Val -> Val]}

\* Option<Val>
OptionV == {O_none} \cup {O_some(a) : a \in Val}

\* Either<Err, Option<Val>>, the argument of compact
EitherOption == {E_left(e) : e \in Err} \cup {E_right(o) : o \in OptionV}

\* Either<Err, Either<Err, Val>>, the argument of separate
EitherEither == {E_left(e) : e \in Err} \cup {E_right(m) : m \in EitherEV}

\* The Monoids handed to getFilterable and getCompactable: their empty is the
\* empty string or a string that is a left payload too.
Monoids == {[empty |-> e] : e \in {"", "e0"}}

NoResult == [kind |-> "none"]

-----------------------------------------------------------------------------
(* The state machine: one library call from the initial state, then, when  *)
(* the call returned an IO, invocations of that IO.                        *)

Init ==
    /\ call = [op |-> "none"]
    /\ ret = NoResult
    /\ log = <<>>
    /\ mark = 0
    /\ last = NoResult
    /\ runs = 0

\* The call returned (or threw) completion r.
Called(c, r) ==
    /\ call.op = "none"
    /\ call' = c
    /\ ret' = [kind |-> r.kind, val |-> r.val]
    /\ log' = r.log
    /\ UNCHANGED <<mark, last, runs>>

\* bracket(acquire, use, release)
Bracket ==
    /\ call.op = "none"
    /\ \E acq \in IOOut, useO \in KOut("use.io"), relO \in KOut("release.io") :
        LET acquire == UserIO("acquire", acq)
            use == ConstFn("use", useO)
            release == ConstFn("release", relO)
        IN  Called([op |-> "bracket", acq |-> acq, useO |-> useO, relO |-> relO],
                   bracket(acquire, use, release, log))

\* IOEither.tryCatch(f, onError)
TryCatch ==
    /\ call.op = "none"
    /\ \E fO \in {OutRet(v) : v \in Val} \cup {OutThr(x) : x \in Exn},
       hT \in [Exn -> {OutRet(e) : e \in Err} \cup {OutThr(x) : x \in Exn}] :
        Called([op |-> "tryCatch", fO |-> fO, hT |-> hT],
               tryCatch(UserIO("f", fO), UserFn("onError", hT), log))

\* IOEither.chain(f)(ma)
Chain ==
    /\ call.op = "none"
    /\ \E maO \in IOOut, fT \in [Val -> KOut("f.io")] :
        Called([op |-> "chain", maO |-> maO, fT |-> fT],
               chain(UserFn("f", fT), UserIO("ma", maO), log))

\* IOEither.map(f)(fa)
Map ==
    /\ call.op = "none"
    /\ \E maO \in IOOut, g \in [Val -> Val] :
        Called([op |-> "map", maO |-> maO, g |-> g],
               map(UserFn("f", Pure(g)), UserIO("ma", maO), log))

\* Either.map(f)(m)
EitherMap ==
    /\ call.op = "none"
    /\ \E g \in [Val -> Val], m \in EitherEV :
        Called([op |-> "E.map", g |-> g, m |-> m],
               E_map(UserFn("f", Pure(g)), m, log))

\* Either.chain(f)(m); f is a caller's function or of itself
EitherChain ==
    /\ call.op = "none"
    /\ \E f \in KleisliFn, m \in EitherEV :
        Called([op |-> "E.chain", f |-> f, m |-> m], E_chain(f, m, log))

\* Either.ap(fa)(fab)
EitherAp ==
    /\ call.op = "none"
    /\ \E fa \in EitherEV, fab \in EitherFn :
        Called([op |-> "E.ap", fa |-> fa, m |-> fab], E_ap(fa, fab, log))

\* getValidation(S).ap(ma)(mab)
ValidationAp ==
    /\ call.op = "none"
    /\ \E S \in SemigroupsE, ma \in EitherEV, mab \in EitherFn :
        Called([op |-> "V.ap", S |-> S, fa |-> ma, m |-> mab],
               getValidation_ap(Semigroup("S.concat", S), ma, mab, log))

\* getValidationSemigroup(SE, SA).concat(fx, fy)
ValidationConcat ==
    /\ call.op = "none"
    /\ \E SE \in SemigroupsE, SA \in SemigroupsA, fx \in EitherEV, fy \in EitherEV :
        Called([op |-> "V.concat", SE |-> SE, SA |-> SA, fx |-> fx, fy |-> fy],
               getValidationSemigroup_concat(Semigroup("SE.concat", SE),
                                             Semigroup("SA.concat", SA), fx, fy, log))

\* getIOValidation(S).ap(fa)(fab)
IOValidationAp ==
    /\ call.op = "none"
    /\ \E S \in SemigroupsE, faO \in IOOut,
       fabO \in {OutRet(m) : m \in EitherFn} \cup {OutThr(x) : x \in Exn} :
        Called([op |-> "IOV.ap", S |-> S, faO |-> faO, fabO |-> fabO],
               getIOValidation_ap(Semigroup("S.concat", S), UserIO("fa.io", faO),
                                  UserIO("fab.io", fabO), log))

\* Either.alt(that)(fa)
EitherAlt ==
    /\ call.op = "none"
    /\ \E thatO \in IOOut, fa \in EitherEV :
        Called([op |-> "E.alt", thatO |-> thatO, fa |-> fa],
               E_alt(UserIO("that", thatO), fa, log))

\* Either.tryCatch(f, onError)
EitherTryCatch ==
    /\ call.op = "none"
    /\ \E fO \in {OutRet(v) : v \in Val} \cup {OutThr(x) : x \in Exn},
       hT \in [Exn -> {OutRet(e) : e \in Err} \cup {OutThr(x) : x \in Exn}] :
        Called([op |-> "E.tryCatch", fO |-> fO, hT |-> hT],
               E_tryCatch(UserIO("f", fO), UserFn("onError", hT), log))

\* getFilterable(M).filter(predicate)(ma)
Filter ==
    /\ call.op = "none"
    /\ \E M \in Monoids, p \in [Val -> BOOLEAN], ma \in EitherEV :
        Called([op |-> "filter", M |-> M, p |-> p, m |-> ma],
               filter(M, UserFn("predicate", Pure(p)), ma, log))

\* getFilterable(M).filterMap(f)(ma)
FilterMap ==
    /\ call.op = "none"
    /\ \E M \in Monoids, f \in [Val -> OptionV], ma \in EitherEV :
        Called([op |-> "filterMap", M |-> M, f |-> f, m |-> ma],
               filterMap(M, UserFn("f", Pure(f)), ma, log))

\* getCompactable(M).compact(ma)
Compact ==
    /\ call.op = "none"
    /\ \E M \in Monoids, ma \in EitherOption :
        Called([op |-> "compact", M |-> M, m |-> ma], compact(M, ma, log))

\* getFilterable(M).partition(p)(ma)
Partition ==
    /\ call.op = "none"
    /\ \E M \in Monoids, p \in [Val -> BOOLEAN], ma \in EitherEV :
        Called([op |-> "partition", M |-> M, p |-> p, m |-> ma],
               partition(M, UserFn("predicate", Pure(p)), ma, log))

\* getFilterable(M).partitionMap(f)(ma)
PartitionMap ==
    /\ call.op = "none"
    /\ \E M \in Monoids, f \in [Val -> EitherEV], ma \in EitherEV :
        Called([op |-> "partitionMap", M |-> M, f |-> f, m |-> ma],
               partitionMap(M, UserFn("f", Pure(f)), ma, log))

\* getCompactable(M).separate(ma)
Separate ==
    /\ call.op = "none"
    /\ \E M \in Monoids, ma \in EitherEither :
        Called([op |-> "separate", M |-> M, m |-> ma], separate(M, ma, log))

\* getEq(EL, EA).equals(x, y): x and y are one object (same) or two, and one
\* object has one value.
GetEq ==
    /\ call.op = "none"
    /\ \E EL \in [Err \X Err -> BOOLEAN], EA \in [Val \X Val -> BOOLEAN],
       x \in EitherEV, y \in EitherEV, same \in BOOLEAN :
        /\ same => x = y
        /\ Called([op |-> "getEq", EL |-> EL, EA |-> EA,
                   x |-> x, y |-> y, same |-> same],
                  getEq_equals(UserFn("EL", Pure(EL)), UserFn("EA", Pure(EA)),
                               x, y, same, log))

\* The calls that return an IO.
IOOps == {"bracket", "tryCatch", "chain", "map", "IOV.ap"}

\* The caller invokes the IO the call returned.
Invoke ==
    /\ call.op \in IOOps
    /\ ret.kind = "return"
    /\ runs < MaxRuns
    /\ LET r == Run(ret.val, log)
       IN  /\ last' = [kind |-> r.kind, val |-> r.val]
           /\ log' = r.log
    /\ mark' = Len(log)
    /\ runs' = runs + 1
    /\ UNCHANGED <<call, ret>>

Next ==
    \/ Bracket
    \/ TryCatch
    \/ Chain
    \/ Map
    \/ EitherMap
    \/ EitherChain
    \/ EitherAp
    \/ ValidationAp
    \/ ValidationConcat
    \/ IOValidationAp
    \/ EitherAlt
    \/ EitherTryCatch
    \/ Filter
    \/ FilterMap
    \/ Compact
    \/ Partition
    \/ PartitionMap
    \/ Separate
    \/ GetEq
    \/ Invoke

Spec == Init /\ [][Next]_vars

-----------------------------------------------------------------------------
(* What the properties read.                                               *)

\* The events of the last invocation of the IO.
RunLog == SubSeq(log, mark + 1, Len(log))

\* How many events named name the last invocation made / were made in all.
Count(name) == Cardinality({i \in 1 .. Len(RunLog) : RunLog[i][1] = name})
LogCount(name) == Cardinality({i \in 1 .. Len(log) : log[i][1] = name})

BracketRan == call.op = "bracket" /\ runs >= 1
AcqRight == call.acq.kind = "return" /\ E_isRight(call.acq.val)
AcqLeft == call.acq.kind = "return" /\ E_isLeft(call.acq.val)
\* use(resource) returned an IO and that IO yielded an Either (UseOutcome).
UseYields == call.useO.kind = "return" /\ call.useO.val.out.kind = "return"
UseOutcome == call.useO.val.out.val
UseThrown == IF call.useO.kind = "throw" THEN call.useO.val ELSE call.useO.val.out.val
\* release(resource, outcome) returned an IO and that IO yielded an Either.
RelYields == call.relO.kind = "return" /\ call.relO.val.out.kind = "return"
RelOutcome == call.relO.val.out.val

-----------------------------------------------------------------------------
(* IOEither.bracket                                                        *)

\* C1: when acquire yields Right(resource) and use(resource) yields an Either
\* (Left or Right), an invocation of the bracket runs acquire, then
\* use(resource) and its IO, then release exactly once, called with that
\* resource and the outcome of use.
C1_ReleaseOnceAfterUse ==
    (BracketRan /\ AcqRight /\ UseYields) =>
        /\ Len(RunLog) >= 4
        /\ SubSeq(RunLog, 1, 4) =
              << <<"acquire">>, <<"use", call.acq.val.right>>, <<"use.io">>,
                 <<"release", <<call.acq.val.right, UseOutcome>>>> >>
        /\ Count("acquire") = 1
        /\ Count("use") = 1
        /\ Count("use.io") = 1
        /\ Count("release") = 1

C1_Witness ==
    /\ BracketRan /\ AcqRight /\ UseYields
    /\ E_isLeft(UseOutcome)
    /\ Count("release") = 1

\* C2: when acquire yields Left(e), neither use nor release is invoked and
\* the bracket yields Left(e).
C2_AcquireFailure ==
    (BracketRan /\ AcqLeft) =>
        /\ RunLog = << <<"acquire">> >>
        /\ last = OutRet(call.acq.val)

C2_Witness == BracketRan /\ AcqLeft /\ last.kind = "return"

\* C3: after a successful acquire, when release yields Right the bracket
\* yields the outcome of use, and when release yields Left(r) it yields
\* Left(r), whatever use yielded.
C3_Result ==
    (BracketRan /\ AcqRight /\ UseYields /\ RelYields) =>
        IF E_isRight(RelOutcome)
        THEN last = OutRet(UseOutcome)
        ELSE last = OutRet(E_left(RelOutcome.left))

C3_Witness ==
    /\ BracketRan /\ AcqRight /\ UseYields /\ RelYields
    /\ E_isRight(UseOutcome)
    /\ E_isLeft(RelOutcome)
    /\ last = OutRet(RelOutcome)

\* C4 as stated: once acquire has yielded Right, release is invoked in every
\* invocation, also when use or the IO it returns throws.
C4_ReleaseAlwaysRuns ==
    (BracketRan /\ AcqRight) => Count("release") >= 1

\* C4 as amended: once acquire has yielded Right, release is invoked (once)
\* exactly when use(resource) and the IO it returns complete without
\* throwing; when one of them throws, release is not invoked and the
\* invocation of the bracket throws that exception.
C4_ReleaseUnlessUseThrows ==
    (BracketRan /\ AcqRight) =>
        IF UseYields
        THEN Count("release") = 1
        ELSE Count("release") = 0 /\ last = OutThr(UseThrown)

C4_Witness ==
    /\ BracketRan /\ AcqRight /\ ~UseYields
    /\ last.kind = "throw"
    /\ Count("use") = 1


-----------------------------------------------------------------------------
(* Laziness, IOEither.tryCatch, IOEither.chain                             *)

\* The caller's effect that an IO built by map, chain or bracket runs first.
FirstEffect == IF call.op = "bracket" THEN "acquire" ELSE "ma"
MaRight == call.maO.kind = "return" /\ E_isRight(call.maO.val)
MaLeft == call.maO.kind = "return" /\ E_isLeft(call.maO.val)

\* C5: calling map, chain or bracket returns an IO and invokes no callback
\* and runs no effect; after n invocations of that IO the underlying effect
\* has run n times, once per invocation, and so has the function given to
\* map when the effect yields Right.
C5_Laziness ==
    (call.op \in {"map", "chain", "bracket"}) =>
        /\ ret.kind = "return"
        /\ runs = 0 => log = <<>>
        /\ LogCount(FirstEffect) = runs
        /\ runs >= 1 => Count(FirstEffect) = 1
        /\ (call.op = "map" /\ MaRight) => LogCount("f") = runs

C5_Witness ==
    /\ call.op = "map" /\ MaRight
    /\ runs = 2
    /\ LogCount("ma") = 2
    /\ LogCount("f") = 2

\* C6: calling tryCatch(f, onError) does not invoke f; each invocation of the
\* IO it returns invokes f exactly once and yields Right(v) when f returns v,
\* Left(onError(x)) when f throws x; the invocation throws only when onError
\* throws.
C6_TryCatch ==
    (call.op = "tryCatch") =>
        /\ ret.kind = "return"
        /\ runs = 0 => log = <<>>
        /\ LogCount("f") = runs
        /\ runs >= 1 =>
              /\ Count("f") = 1
              /\ call.fO.kind = "return" =>
                    /\ last = OutRet(E_right(call.fO.val))
                    /\ RunLog = << <<"f">> >>
              /\ (call.fO.kind = "throw" /\ call.hT[call.fO.val].kind = "return") =>
                    /\ last = OutRet(E_left(call.hT[call.fO.val].val))
                    /\ RunLog = << <<"f">>, <<"onError", call.fO.val>> >>
              /\ last.kind = "throw" =>
                    call.fO.kind = "throw" /\ call.hT[call.fO.val].kind = "throw"

C6_Witness ==
    /\ call.op = "tryCatch"
    /\ runs = 2
    /\ call.fO.kind = "throw"
    /\ last.kind = "return"
    /\ E_isLeft(last.val)

\* C7: an invocation of chain(f)(ma) runs ma once, first; when ma yields
\* Left(e), f is not invoked and the result is Left(e); when ma yields
\* Right(a), f(a) is invoked and the IO it returns is run once, after ma,
\* and what that IO does (the Either it yields) is the result.
C7_Chain ==
    (call.op = "chain" /\ runs >= 1) =>
        /\ Len(RunLog) >= 1
        /\ RunLog[1] = <<"ma">>
        /\ Count("ma") = 1
        /\ MaLeft => RunLog = << <<"ma">> >> /\ last = call.maO
        /\ (MaRight /\ call.fT[call.maO.val.right].kind = "return") =>
              /\ RunLog = << <<"ma">>, <<"f", call.maO.val.right>>, <<"f.io">> >>
              /\ last = call.fT[call.maO.val.right].val.out

C7_Witness ==
    /\ call.op = "chain" /\ runs >= 1
    /\ MaRight
    /\ Count("f.io") = 1
    /\ last.kind = "return"
    /\ E_isRight(last.val)

-----------------------------------------------------------------------------
(* Either: right bias, monad laws, functor laws                            *)

\* The value a call of an Either operation returns, evaluated on its own.
MapOf(g, m) == E_map(UserFn("f", Pure(g)), m, <<>>).val
ChainOf(f, m) == E_chain(f, m, <<>>).val
\* a => chain(g)(f(a)) as a function value
ChainAfter(f, g) ==
    UserFn("f", [a \in Val |-> OutRet(ChainOf(g, Apply(f, a, <<>>).val))])

\* C8: map(f), chain(f) and ap(fa) applied to a Left m return m and invoke
\* no function; map(f)(right(a)) is right(f(a)).
C8_RightBias ==
    /\ (call.op \in {"E.map", "E.chain", "E.ap"} /\ E_isLeft(call.m)) =>
          ret = OutRet(call.m) /\ log = <<>>
    /\ (call.op = "E.map" /\ E_isRight(call.m)) =>
          ret = OutRet(E_right(call.g[call.m.right]))

C8_Witness ==
    /\ call.op = "E.map"
    /\ E_isLeft(call.m)
    /\ ret.val = call.m
    /\ log = <<>>

\* C9: the monad laws of Either chain with of = right: chain(f)(of(a)) is
\* f(a); chain(of)(m) is m; chain(g)(chain(f)(m)) is
\* chain(a => chain(g)(f(a)))(m), for all m, a, f and g.
C9_MonadLaws ==
    (call.op = "E.chain") =>
        /\ \A a \in Val :
              call.m = Apply(E_of, a, <<>>).val => ret.val = Apply(call.f, a, <<>>).val
        /\ call.f = E_of => ret.val = call.m
        /\ \A g \in KleisliFn :
              ChainOf(g, ret.val) = ChainOf(ChainAfter(call.f, g), call.m)

C9_Witness ==
    /\ call.op = "E.chain"
    /\ E_isRight(call.m)
    /\ call.f # E_of
    /\ E_isRight(ret.val)
    /\ ret.val # call.m
    /\ Len(log) = 1

\* C10: the functor laws of Either map: map(id)(m) is m and
\* map(g after f)(m) is map(g)(map(f)(m)), for all m (Left and Right), f, g.
C10_FunctorLaws ==
    (call.op = "E.map") =>
        /\ call.g = [a \in Val |-> a] => ret.val = call.m
        /\ \A h \in [Val -> Val] :
              MapOf(h, ret.val) = MapOf([a \in Val |-> h[call.g[a]]], call.m)

C10_Witness ==
    /\ call.op = "E.map"
    /\ E_isRight(call.m)
    /\ call.g[call.m.right] # call.m.right
    /\ ret.val = E_right(call.g[call.m.right])

-----------------------------------------------------------------------------
(* Either: ap, validation, alt, tryCatch, filtering, equality              *)

\* C11: ap(fa)(fab) returns fab when the function side fab is Left, whatever
\* fa is (with both Left, fab's payload is kept and fa's dropped); otherwise
\* fa when fa is Left; and right(fab.right(fa.right)) when both are Right.
C11_ApLeftFirst ==
    (call.op = "E.ap") =>
        IF E_isLeft(call.m) THEN ret = OutRet(call.m) /\ log = <<>>
        ELSE IF E_isLeft(call.fa) THEN ret = OutRet(call.fa) /\ log = <<>>
        ELSE /\ ret = OutRet(E_right(call.m.right.tab[call.fa.right].val))
             /\ log = << <<"fab", call.fa.right>> >>

C11_Witness ==
    /\ call.op = "E.ap"
    /\ E_isLeft(call.m) /\ E_isLeft(call.fa)
    /\ call.m # call.fa
    /\ ret.val = call.m

\* C12: getValidation(S).ap(ma)(mab): two Lefts give
\* left(S.concat(mab.left, ma.left)), the function side's failure first
\* (ap(left("e1"))(left("e0")) is left("e0e1") under concatenation); one Left
\* gives that Left unchanged; two Rights give right(mab.right(ma.right)).
C12_ValidationAp ==
    (call.op = "V.ap") =>
        /\ (E_isLeft(call.m) /\ E_isLeft(call.fa)) =>
              /\ ret = OutRet(E_left(SConcat(call.S, call.m.left, call.fa.left)))
              /\ log = << <<"S.concat", <<call.m.left, call.fa.left>>>> >>
        /\ (call.S = "append" /\ call.m = E_left("e0") /\ call.fa = E_left("e1")) =>
              ret = OutRet(E_left("e0e1"))
        /\ (E_isLeft(call.m) /\ E_isRight(call.fa)) => ret = OutRet(call.m) /\ log = <<>>
        /\ (E_isRight(call.m) /\ E_isLeft(call.fa)) => ret = OutRet(call.fa) /\ log = <<>>
        /\ (E_isRight(call.m) /\ E_isRight(call.fa)) =>
              ret = OutRet(E_right(call.m.right.tab[call.fa.right].val))

C12_Witness ==
    /\ call.op = "V.ap"
    /\ call.S = "append"
    /\ call.m = E_left("e0")
    /\ call.fa = E_left("e1")
    /\ ret.val = E_left("e0e1")

\* C13: getValidationSemigroup(SE, SA).concat(fx, fy): two Lefts give
\* left(SE.concat(fx.left, fy.left)); a Left and a Right, in either order,
\* give the Left unchanged; two Rights give right(SA.concat(fx.right, fy.right)).
C13_ValidationSemigroup ==
    (call.op = "V.concat") =>
        /\ (E_isLeft(call.fx) /\ E_isLeft(call.fy)) =>
              /\ ret = OutRet(E_left(SConcat(call.SE, call.fx.left, call.fy.left)))
              /\ log = << <<"SE.concat", <<call.fx.left, call.fy.left>>>> >>
        /\ (E_isLeft(call.fx) /\ E_isRight(call.fy)) => ret = OutRet(call.fx) /\ log = <<>>
        /\ (E_isRight(call.fx) /\ E_isLeft(call.fy)) => ret = OutRet(call.fy) /\ log = <<>>
        /\ (E_isRight(call.fx) /\ E_isRight(call.fy)) =>
              /\ ret = OutRet(E_right(SConcat(call.SA, call.fx.right, call.fy.right)))
              /\ log = << <<"SA.concat", <<call.fx.right, call.fy.right>>>> >>

C13_Witness ==
    /\ call.op = "V.concat"
    /\ E_isRight(call.fx) /\ E_isLeft(call.fy)
    /\ ret.val = call.fy
    /\ log = <<>>

\* C14: an invocation of getIOValidation(S).ap(fa)(fab) whose two
\* computations yield an Either runs both of them, once each, also when the
\* one run first yields Left; two Lefts give a Left holding the
\* S-combination of the two payloads (the function side's first), one Left
\* gives that Left, two Rights give Right of the function applied to the value.
C14_IOValidationAp ==
    (call.op = "IOV.ap") =>
        /\ ret.kind = "return"
        /\ runs = 0 => log = <<>>
        /\ (runs >= 1 /\ call.faO.kind = "return" /\ call.fabO.kind = "return") =>
              LET ma == call.faO.val
                  mab == call.fabO.val
              IN  /\ Count("fa.io") = 1
                  /\ Count("fab.io") = 1
                  /\ (E_isLeft(mab) /\ E_isLeft(ma)) =>
                        last = OutRet(E_left(SConcat(call.S, mab.left, ma.left)))
                  /\ (E_isLeft(mab) /\ E_isRight(ma)) => last = OutRet(mab)
                  /\ (E_isRight(mab) /\ E_isLeft(ma)) => last = OutRet(ma)
                  /\ (E_isRight(mab) /\ E_isRight(ma)) =>
                        last = OutRet(E_right(mab.right.tab[ma.right].val))

C14_Witness ==
    /\ call.op = "IOV.ap" /\ runs >= 1
    /\ call.S = "append"
    /\ call.fabO = OutRet(E_left("e1"))
    /\ call.faO = OutRet(E_left("e0"))
    /\ Count("fa.io") = 1 /\ Count("fab.io") = 1
    /\ last = OutRet(E_left("e1e0"))

\* C15: alt(that)(fa): when fa is Right the result is fa and that is not
\* invoked; when fa is Left, that is invoked exactly once and what it
\* returns is the result.
C15_AltLazy ==
    (call.op = "E.alt") =>
        IF E_isRight(call.fa)
        THEN ret = OutRet(call.fa) /\ log = <<>>
        ELSE ret = call.thatO /\ log = << <<"that">> >>

C15_Witness ==
    /\ call.op = "E.alt"
    /\ E_isLeft(call.fa)
    /\ call.thatO.kind = "return"
    /\ E_isRight(call.thatO.val)
    /\ ret.val = call.thatO.val
    /\ LogCount("that") = 1

\* C16: Either.tryCatch(f, onError) invokes f exactly once; when f returns v
\* the result is right(v) and onError is not invoked; when f throws x the
\* result is left(onError(x)); when onError throws, its exception is thrown
\* by tryCatch.
C16_EitherTryCatch ==
    (call.op = "E.tryCatch") =>
        /\ LogCount("f") = 1
        /\ call.fO.kind = "return" =>
              ret = OutRet(E_right(call.fO.val)) /\ log = << <<"f">> >>
        /\ call.fO.kind = "throw" =>
              /\ log = << <<"f">>, <<"onError", call.fO.val>> >>
              /\ call.hT[call.fO.val].kind = "return" =>
                    ret = OutRet(E_left(call.hT[call.fO.val].val))
              /\ call.hT[call.fO.val].kind = "throw" =>
                    ret = OutThr(call.hT[call.fO.val].val)

C16_Witness ==
    /\ call.op = "E.tryCatch"
    /\ call.fO.kind = "throw"
    /\ call.hT[call.fO.val].kind = "throw"
    /\ ret.kind = "throw"
    /\ ret.val = call.hT[call.fO.val].val

\* C17: filter(p), filterMap(f) and compact give left(M.empty) for a Right
\* whose value is filtered out (p false, f gives None, the payload is None),
\* a Right of the kept value for a Right that is kept, and return a Left
\* unchanged without invoking p or f.
C17_Filtering ==
    /\ (call.op \in {"filter", "filterMap", "compact"} /\ E_isLeft(call.m)) =>
          ret = OutRet(call.m) /\ log = <<>>
    /\ (call.op = "filter" /\ E_isRight(call.m)) =>
          IF call.p[call.m.right]
          THEN ret = OutRet(E_right(call.m.right))
          ELSE ret = OutRet(E_left(call.M.empty))
    /\ (call.op = "filterMap" /\ E_isRight(call.m)) =>
          IF call.f[call.m.right] = O_none
          THEN ret = OutRet(E_left(call.M.empty))
          ELSE ret = OutRet(E_right(call.f[call.m.right].value))
    /\ (call.op = "compact" /\ E_isRight(call.m)) =>
          IF call.m.right = O_none
          THEN ret = OutRet(E_left(call.M.empty))
          ELSE ret = OutRet(E_right(call.m.right.value))

C17_Witness ==
    /\ call.op = "filter"
    /\ E_isRight(call.m)
    /\ ~call.p[call.m.right]
    /\ call.M.empty = ""
    /\ ret.val = E_left("")
    /\ log = << <<"predicate", call.m.right>> >>

\* C19: partition(p), partitionMap(f) and separate return {left, right}: for
\* a Left input both components are the input Left; for a Right input exactly
\* one component is a Right (right when the predicate holds or the inner
\* Either is a Right, left otherwise) and the other is left(M.empty).
C19_Partitioning ==
    /\ (call.op \in {"partition", "partitionMap", "separate"}
            /\ E_isLeft(call.m)) =>
          ret = OutRet([left |-> call.m, right |-> call.m]) /\ log = <<>>
    /\ (call.op = "partition" /\ E_isRight(call.m)) =>
          IF call.p[call.m.right]
          THEN ret = OutRet([left  |-> E_left(call.M.empty),
                             right |-> E_right(call.m.right)])
          ELSE ret = OutRet([left  |-> E_right(call.m.right),
                             right |-> E_left(call.M.empty)])
    /\ (call.op = "partitionMap" /\ E_isRight(call.m)) =>
          LET e == call.f[call.m.right]
          IN  IF E_isRight(e)
              THEN ret = OutRet([left  |-> E_left(call.M.empty),
                                 right |-> E_right(e.right)])
              ELSE ret = OutRet([left  |-> E_right(e.left),
                                 right |-> E_left(call.M.empty)])
    /\ (call.op = "separate" /\ E_isRight(call.m)) =>
          LET e == call.m.right
          IN  IF E_isRight(e)
              THEN ret = OutRet([left  |-> E_left(call.M.empty),
                                 right |-> E_right(e.right)])
              ELSE ret = OutRet([left  |-> E_right(e.left),
                                 right |-> E_left(call.M.empty)])

C19_Witness ==
    /\ call.op = "partition"
    /\ E_isRight(call.m)
    /\ call.p[call.m.right]
    /\ call.M.empty = ""
    /\ ret.val = [left |-> E_left(""), right |-> call.m]
    /\ log = << <<"predicate", call.m.right>> >>

\* Properties of an equality given as a table over S \X S.
Reflexive(R, S) == \A a \in S : R[<<a, a>>]
Symmetric(R, S) == \A a \in S, b \in S : R[<<a, b>>] => R[<<b, a>>]
Transitive(R, S) ==
    \A a \in S, b \in S, c \in S : (R[<<a, b>>] /\ R[<<b, c>>]) => R[<<a, c>>]

\* What getEq(call.EL, call.EA).equals answers for x and y, s telling whether
\* they are one object.
EqualsOf(x, y, s) ==
    getEq_equals(UserFn("EL", Pure(call.EL)), UserFn("EA", Pure(call.EA)),
                 x, y, s, <<>>).val

\* C18: getEq(EL, EA).equals(x, y) for reflexive EL and EA is true exactly
\* when x and y have the same tag and their payloads are equal under EL (two
\* Lefts) or EA (two Rights); a Left never equals a Right; the relation is
\* reflexive, and symmetric and transitive whenever EL and EA are.
C18_GetEq ==
    (call.op = "getEq" /\ Reflexive(call.EL, Err) /\ Reflexive(call.EA, Val)) =>
        LET x == call.x
            y == call.y
        IN  /\ ret.kind = "return"
            /\ ret.val = IF E_isLeft(x) /\ E_isLeft(y)
                         THEN call.EL[<<x.left, y.left>>]
                         ELSE IF E_isRight(x) /\ E_isRight(y)
                         THEN call.EA[<<x.right, y.right>>]
                         ELSE FALSE
            /\ (E_isLeft(x) # E_isLeft(y)) => ret.val = FALSE
            /\ EqualsOf(x, x, TRUE) /\ EqualsOf(x, x, FALSE)
            /\ (Symmetric(call.EL, Err) /\ Symmetric(call.EA, Val)) =>
                  (ret.val = EqualsOf(y, x, call.same))
            /\ (Transitive(call.EL, Err) /\ Transitive(call.EA, Val)) =>
                  \A z \in EitherEV, yz \in BOOLEAN, xz \in BOOLEAN :
                      ((yz => y = z) /\ (xz => x = z)
                           /\ ret.val /\ EqualsOf(y, z, yz)) =>
                          EqualsOf(x, z, xz)

C18_Witness ==
    /\ call.op = "getEq"
    /\ Reflexive(call.EL, Err) /\ Reflexive(call.EA, Val)
    /\ ~call.same
    /\ E_isLeft(call.x) /\ E_isLeft(call.y)
    /\ call.x # call.y
    /\ call.EL[<<call.x.left, call.y.left>>]
    /\ ret = OutRet(TRUE)
    /\ log = << <<"EL", <<call.x.left, call.y.left>> >> >>

====
